---- MODULE Spec2Model ----
(***************************************************************************)
(* Model of the Arzaq backend: the order workflow                          *)
(* (app/api/routes/orders.py), the food handlers (foods.py), the           *)
(* restaurant handlers (restaurants.py), the community feed (posts.py) and  *)
(* the accounts (auth.py), over the tables they share.                     *)
(*                                                                         *)
(* Stored state is what has been committed to the database.  A request     *)
(* handler works on the objects of its own ORM session: the first query    *)
(* for a row loads the committed row into the session, later queries for   *)
(* the same row return the session's object, attribute assignments change  *)
(* the session's object only, and db.commit() writes the changed           *)
(* attributes and the added rows.  A handler that raises never reaches     *)
(* db.commit(), so its session is dropped.  create_order is cut at its     *)
(* database round trips, so that several requests served by different      *)
(* workers interleave; create_restaurant, approve_restaurant,              *)
(* reject_restaurant, toggle_like, register and google_register, whose     *)
(* write depends on what their query found, are cut between the query and  *)
(* the commit.  google_login commits inside the handler and is one step,   *)
(* since what it writes comes from the request alone.  The other           *)
(* handlers do one read and one commit with values taken from the request  *)
(* and are one step each.                                                  *)
(*                                                                         *)
(* Prices are whole numbers of the smallest currency unit.  Timestamps are *)
(* ticks of one clock: a stored timestamp and datetime.utcnow() are taken  *)
(* to be comparable, as they are when both are kept without a time zone.   *)
(* The writes of one db.commit() are one step: a commit that meets a row   *)
(* written by another transaction waits for it and then writes the value   *)
(* it computed (the database's default isolation, READ COMMITTED).         *)
(***************************************************************************)
EXTENDS Integers, Sequences, FiniteSets, TLC

VARIABLES now, users, restaurants, foods, orders, posts, post_likes, post_comments, seq, req, resp

vars == <<now, users, restaurants, foods, orders, posts, post_likes, post_comments, seq, req, resp>>

(* The tables of the community feed and the id sequences of the tables *)
feed == <<posts, post_likes, post_comments, seq>>

----------------------------------------------------------------------------
(* Bounds of the model *)

MaxTime == 2
MaxOrders == 2
MaxItems == 2
MaxQuantity == 2
NumWorkers == 2

----------------------------------------------------------------------------
(* Identifiers and input sets *)

Workers == 1..NumWorkers

Clients == {21, 22}
Owners == {11, 12}
(* A user with the restaurant role who has registered no restaurant yet *)
Applicants == {13}
Admins == {1}

Users == Admins \cup Owners \cup Applicants \cup Clients

Role(user) ==
  IF user \in Admins THEN "admin"
  ELSE IF user \in Owners \cup Applicants THEN "restaurant"
  ELSE "client"

RestaurantIds == {1, 2, 3}
Names == {"a", "b"}
FoodIds == {1, 2, 3, 4}

Prices == {3, 5}
Quantities == 0..MaxQuantity
Times == 0..MaxTime

OrderStatus == {"pending", "confirmed", "ready", "completed", "cancelled"}

None == << >>
Some(v) == <<v>>

OrderItemCreate == [food_id : FoodIds, quantity : 1..MaxQuantity]

(* The body of a create_order request.  The handler reads the lines one by  *)
(* one and never looks ahead, so the model draws the restaurant and the    *)
(* number of lines when the request starts and each line when the loop     *)
(* reaches it: data.items holds the lines read so far, n the length of the *)
(* list.                                                                   *)
OrderCreate == [restaurant_id : RestaurantIds, n : 0..MaxItems]

FoodUpdate ==
  [price : {None} \cup {Some(v) : v \in Prices},
   old_price : {None} \cup {Some(v) : v \in Prices},
   quantity : {None} \cup {Some(v) : v \in Quantities},
   expires_at : {None} \cup {Some(v) : v \in Times}]

----------------------------------------------------------------------------
(* Rows, sessions and responses *)

Food(rid, price, old_price, quantity, expires) ==
  [restaurant_id |-> rid, price |-> price, old_price |-> old_price, quantity |-> quantity,
   expires_at |-> expires]

(* A restaurant as create_restaurant stores it *)
Restaurant(owner, name) ==
  [owner_id |-> owner, name |-> name, status |-> "pending", rejection_reason |-> None,
   approved_at |-> None]

OrderItem(fid, quantity, price) ==
  [food_id |-> fid, quantity |-> quantity, price |-> price]

(* Variant: the order is stored as already confirmed *)
Order_confirmed(customer, rid, total, items) ==
  [customer_id |-> customer, restaurant_id |-> rid, total_amount |-> total,
   status |-> "confirmed", completed_at |-> None, items |-> items]

Order(customer, rid, total, items) ==
  [customer_id |-> customer, restaurant_id |-> rid, total_amount |-> total,
   status |-> "pending", completed_at |-> None, items |-> items]

EmptyPosts == [id \in {} |-> [author_id |-> 0, restaurant_id |-> None]]

(* The next id of every table whose rows can be deleted *)
InitSeq ==
  [restaurants |-> 3, foods |-> 4, posts |-> 1, likes |-> 1, comments |-> 1, users |-> 24]

User(email, hashed_password, google_id) ==
  [email |-> email, hashed_password |-> hashed_password, google_id |-> google_id,
   is_active |-> TRUE]

(* The rows of the users table that the requests for accounts can meet:    *)
(* user 23, who registered with a password and has been deactivated.       *)
InitUsers == (23 :> [User("a", Some("pw"), None) EXCEPT !.is_active = FALSE])

EmptySession == [f \in {} |-> Food(0, 0, 0, 0, 0)]

Idle ==
  [pc |-> "idle", user |-> 0, data |-> [restaurant_id |-> 0, items |-> << >>],
   n |-> 0, i |-> 0, total_amount |-> 0, order_items_data |-> << >>,
   session |-> EmptySession, loaded |-> EmptySession]

NoResponse ==
  [code |-> 0, reason |-> "none", food_id |-> 0, line |-> 0, order_id |-> 0, available |-> 0]

HTTPException(code, reason, fid, line) ==
  [code |-> code, reason |-> reason, food_id |-> fid, line |-> line, order_id |-> 0,
   available |-> 0]

Created(oid) ==
  [code |-> 201, reason |-> "created", food_id |-> 0, line |-> 0, order_id |-> oid,
   available |-> 0]

----------------------------------------------------------------------------
(* create_order: the checks and the arithmetic of one requested line *)

(* Variant: the check asks only whether any stock is left *)
NotEnoughQuantity_anyStock(food_quantity, item_quantity) == food_quantity <= 0

NotEnoughQuantity(food_quantity, item_quantity) == food_quantity < item_quantity

HasExpired(expires_at, utcnow) == expires_at < utcnow

(* Variant: the line counts its unit price once, whatever the quantity *)
ItemTotal_unit(price, quantity) == price

ItemTotal(price, quantity) == price * quantity

(* Variant: the loop leaves the quantity alone; nothing is deducted while *)
(* lines are still being checked.                                         *)
DecreaseQuantity_deferred(food_quantity, item_quantity) == food_quantity

DecreaseQuantity(food_quantity, item_quantity) == food_quantity - item_quantity

(* db.query(Food).filter(Food.id == fid).first(): the row must be in the   *)
(* table; the object returned is the session's when it was loaded before.  *)
QueryFood(session, fid) == IF fid \in DOMAIN session THEN session[fid] ELSE foods[fid]

(* Variant: the expiry of the food is checked before its quantity *)
LineError_expiryFirst(session, rid, item, i, utcnow) ==
  IF item.food_id \notin DOMAIN foods
    THEN HTTPException(404, "food_not_found", item.food_id, i)
  ELSE LET food == QueryFood(session, item.food_id) IN
    IF food.restaurant_id # rid
      THEN HTTPException(400, "wrong_restaurant", item.food_id, i)
    ELSE IF HasExpired(food.expires_at, utcnow)
      THEN HTTPException(400, "expired", item.food_id, i)
    ELSE IF NotEnoughQuantity(food.quantity, item.quantity)
      THEN [HTTPException(400, "not_enough_quantity", item.food_id, i)
              EXCEPT !.available = food.quantity]
    ELSE NoResponse

(* The exception the checks of one line raise, or NoResponse when the line *)
(* passes.                                                                 *)
LineError(session, rid, item, i, utcnow) ==
  IF item.food_id \notin DOMAIN foods
    THEN HTTPException(404, "food_not_found", item.food_id, i)
  ELSE LET food == QueryFood(session, item.food_id) IN
    IF food.restaurant_id # rid
      THEN HTTPException(400, "wrong_restaurant", item.food_id, i)
    ELSE IF NotEnoughQuantity(food.quantity, item.quantity)
      THEN [HTTPException(400, "not_enough_quantity", item.food_id, i)
              EXCEPT !.available = food.quantity]
    ELSE IF HasExpired(food.expires_at, utcnow)
      THEN HTTPException(400, "expired", item.food_id, i)
    ELSE NoResponse

(* What db.commit() writes of the session's foods: the quantity of every   *)
(* food whose quantity differs from the one loaded.                        *)
Flush(stored, session, loaded) ==
  [f \in DOMAIN stored |->
     IF f \in DOMAIN session /\ session[f].quantity # loaded[f].quantity
       THEN [stored[f] EXCEPT !.quantity = session[f].quantity]
       ELSE stored[f]]

InFlight == Cardinality({p \in Workers : req[p].pc # "idle"})

----------------------------------------------------------------------------
(* create_order *)

create_order_begin(p, user, data) ==
  /\ req[p].pc = "idle"
  /\ Len(orders) + InFlight < MaxOrders
  /\ IF data.restaurant_id \notin DOMAIN restaurants
       THEN /\ resp' = [resp EXCEPT ![p] = HTTPException(404, "restaurant_not_found", 0, 0)]
            /\ UNCHANGED req
       ELSE /\ req' = [req EXCEPT ![p] = [Idle EXCEPT !.pc = "loop", !.user = user,
                                                      !.data = [restaurant_id |-> data.restaurant_id,
                                                                 items |-> << >>],
                                                      !.n = data.n, !.i = 1]]
            /\ resp' = [resp EXCEPT ![p] = NoResponse]
  /\ UNCHANGED <<now, users, restaurants, foods, orders>>
  /\ UNCHANGED feed

(* Variant: a line that passes writes its decrement to the table at once   *)
(* instead of leaving it in the session until the commit.                  *)
create_order_line_writethrough(p, item) ==
  LET r == req[p] IN
  /\ r.pc = "loop"
  /\ r.i <= r.n
  /\ LET err == LineError(r.session, r.data.restaurant_id, item, r.i, now)
     IN IF err # NoResponse
          THEN /\ req' = [req EXCEPT ![p] = Idle]
               /\ resp' = [resp EXCEPT ![p] = err]
               /\ UNCHANGED foods
          ELSE LET food == QueryFood(r.session, item.food_id)
                   fid == item.food_id
                   decreased == [food EXCEPT !.quantity =
                                   DecreaseQuantity(food.quantity, item.quantity)]
               IN /\ req' = [req EXCEPT ![p] =
                      [r EXCEPT !.i = r.i + 1,
                                !.data.items = Append(r.data.items, item),
                                !.total_amount = r.total_amount + ItemTotal(food.price, item.quantity),
                                !.order_items_data =
                                   Append(r.order_items_data,
                                          OrderItem(fid, item.quantity, food.price)),
                                !.session = (fid :> decreased) @@ r.session,
                                !.loaded = (fid :> decreased) @@ r.loaded]]
                  /\ foods' = [foods EXCEPT ![fid] = decreased]
                  /\ UNCHANGED resp
  /\ UNCHANGED <<now, users, restaurants, orders>>
  /\ UNCHANGED feed

create_order_line(p, item) ==
  LET r == req[p] IN
  /\ r.pc = "loop"
  /\ r.i <= r.n
  /\ LET err == LineError(r.session, r.data.restaurant_id, item, r.i, now)
     IN IF err # NoResponse
          THEN /\ req' = [req EXCEPT ![p] = Idle]
               /\ resp' = [resp EXCEPT ![p] = err]
          ELSE LET food == QueryFood(r.session, item.food_id)
                   fid == item.food_id
                   first == fid \notin DOMAIN r.session
                   decreased == [food EXCEPT !.quantity =
                                   DecreaseQuantity(food.quantity, item.quantity)]
               IN /\ req' = [req EXCEPT ![p] =
                      [r EXCEPT !.i = r.i + 1,
                                !.data.items = Append(r.data.items, item),
                                !.total_amount = r.total_amount + ItemTotal(food.price, item.quantity),
                                !.order_items_data =
                                   Append(r.order_items_data,
                                          OrderItem(fid, item.quantity, food.price)),
                                !.session = IF first THEN (fid :> decreased) @@ r.session
                                            ELSE [r.session EXCEPT ![fid] = decreased],
                                !.loaded = IF first THEN (fid :> food) @@ r.loaded
                                           ELSE r.loaded]]
                  /\ UNCHANGED resp
  /\ UNCHANGED <<now, users, restaurants, foods, orders>>
  /\ UNCHANGED feed

(* What the flush of create_order meets when rows it read are gone: the    *)
(* UPDATE of a deleted food matches no row, and the INSERTs of the order    *)
(* and its items name a restaurant or a food that is not stored.            *)
CommitError(r) ==
  IF \/ r.data.restaurant_id \notin DOMAIN restaurants
     \/ \E f \in DOMAIN r.session : f \notin DOMAIN foods
    THEN HTTPException(500, "row_gone", 0, 0)
    ELSE NoResponse

create_order_commit(p) ==
  LET r == req[p] IN
  /\ r.pc = "loop"
  /\ r.i > r.n
  /\ IF CommitError(r) # NoResponse
       THEN /\ resp' = [resp EXCEPT ![p] = CommitError(r)]
            /\ UNCHANGED <<foods, orders>>
       ELSE /\ foods' = Flush(foods, r.session, r.loaded)
            /\ orders' = Append(orders, Order(r.user, r.data.restaurant_id, r.total_amount,
                                              r.order_items_data))
            /\ resp' = [resp EXCEPT ![p] = Created(Len(orders) + 1)]
  /\ req' = [req EXCEPT ![p] = Idle]
  /\ UNCHANGED <<now, users, restaurants>>
  /\ UNCHANGED feed

----------------------------------------------------------------------------
(* update_food, update_order_status, the clock *)

OwnsRestaurant(user, rid) ==
  rid \in DOMAIN restaurants /\ restaurants[rid].owner_id = user

SetAttrs(food, food_data) ==
  [food EXCEPT
     !.price = IF food_data.price = None THEN @ ELSE food_data.price[1],
     !.old_price = IF food_data.old_price = None THEN @ ELSE food_data.old_price[1],
     !.quantity = IF food_data.quantity = None THEN @ ELSE food_data.quantity[1],
     !.expires_at = IF food_data.expires_at = None THEN @ ELSE food_data.expires_at[1]]

RECURSIVE Repriced(_, _, _)
Repriced(items, fid, price) ==
  IF items = << >> THEN << >>
  ELSE <<IF items[1].food_id = fid THEN [items[1] EXCEPT !.price = price] ELSE items[1]>>
       \o Repriced(Tail(items), fid, price)

(* Variant: line items follow the food's listed price *)
update_food_repricing(food_id, food_data, user) ==
  /\ food_id \in DOMAIN foods
  /\ OwnsRestaurant(user, foods[food_id].restaurant_id)
  /\ foods' = [foods EXCEPT ![food_id] = SetAttrs(foods[food_id], food_data)]
  /\ orders' = [o \in 1..Len(orders) |->
                  [orders[o] EXCEPT !.items = Repriced(@, food_id, foods'[food_id].price)]]
  /\ UNCHANGED <<now, users, restaurants, req, resp>>
  /\ UNCHANGED feed

update_food(food_id, food_data, user) ==
  /\ food_id \in DOMAIN foods
  /\ OwnsRestaurant(user, foods[food_id].restaurant_id)
  /\ foods' = [foods EXCEPT ![food_id] = SetAttrs(foods[food_id], food_data)]
  /\ UNCHANGED <<now, users, restaurants, orders, req, resp>>
  /\ UNCHANGED feed

(* Variant: leaving COMPLETED clears the completion time *)
SetStatus_clearing(order, status, utcnow) ==
  [order EXCEPT !.status = status,
                !.completed_at = IF status = "completed" THEN Some(utcnow) ELSE None]

(* Variant: a cancelled order is refunded, its amount becomes zero *)
SetStatus_refunding(order, status, utcnow) ==
  [order EXCEPT !.status = status,
                !.completed_at = IF status = "completed" THEN Some(utcnow) ELSE @,
                !.total_amount = IF status = "cancelled" THEN 0 ELSE @]

SetStatus(order, status, utcnow) ==
  [order EXCEPT !.status = status,
                !.completed_at = IF status = "completed" THEN Some(utcnow) ELSE @]

(* Variant: a COMPLETED or CANCELLED order accepts no further status *)
update_order_status_final(order_id, status, user) ==
  /\ order_id \in 1..Len(orders)
  /\ OwnsRestaurant(user, orders[order_id].restaurant_id)
  /\ orders[order_id].status \notin {"completed", "cancelled"}
  /\ orders' = [orders EXCEPT ![order_id] = SetStatus(orders[order_id], status, now)]
  /\ UNCHANGED <<now, users, restaurants, foods, req, resp>>
  /\ UNCHANGED feed

update_order_status(order_id, status, user) ==
  /\ order_id \in 1..Len(orders)
  /\ OwnsRestaurant(user, orders[order_id].restaurant_id)
  /\ orders' = [orders EXCEPT ![order_id] = SetStatus(orders[order_id], status, now)]
  /\ UNCHANGED <<now, users, restaurants, foods, req, resp>>
  /\ UNCHANGED feed

Tick ==
  /\ now < MaxTime
  /\ now' = now + 1
  /\ UNCHANGED <<users, restaurants, foods, orders, req, resp>>
  /\ UNCHANGED feed

----------------------------------------------------------------------------
(* The stored state the requests start from *)

InitRestaurants ==
  (1 :> [Restaurant(11, "a") EXCEPT !.status = "approved", !.approved_at = Some(0)])
  @@ (2 :> [Restaurant(12, "b") EXCEPT !.status = "approved", !.approved_at = Some(0)])

(* Restaurant 1 lists foods 1 and 2, restaurant 2 lists food 3; there is   *)
(* no restaurant 3 and no food 4.  Food 1 expires at time 1, before the    *)
(* clock stops.                                                            *)
InitFoods == (1 :> Food(1, 3, 7, MaxQuantity, 1)) @@ (2 :> Food(1, 5, 7, 1, MaxTime))
             @@ (3 :> Food(2, 3, 7, 1, MaxTime))

Init ==
  /\ now = 0
  /\ restaurants = InitRestaurants
  /\ foods = InitFoods
  /\ orders = << >>
  /\ req = [p \in Workers |-> Idle]
  /\ resp = [p \in Workers |-> NoResponse]
  /\ posts = EmptyPosts
  /\ post_likes = {}
  /\ post_comments = {}
  /\ seq = InitSeq
  /\ users = InitUsers

Next ==
  \/ \E p \in Workers, user \in Clients, data \in OrderCreate : create_order_begin(p, user, data)
  \/ \E p \in Workers, item \in OrderItemCreate : create_order_line(p, item)
  \/ \E p \in Workers : create_order_commit(p)
  \/ Tick

Spec == Init /\ [][Next]_vars

(* The same requests against a table where lines fail for several reasons   *)
(* at once: food 1 is sold out and has expired, food 3 belongs to           *)
(* restaurant 2, is sold out and has expired; food 2 can be ordered.        *)
InitChecks ==
  /\ now = 1
  /\ restaurants = InitRestaurants
  /\ foods = (1 :> Food(1, 3, 7, 0, 0)) @@ (2 :> Food(1, 5, 7, MaxQuantity, MaxTime))
             @@ (3 :> Food(2, 3, 7, 0, 0))
  /\ orders = << >>
  /\ req = [p \in Workers |-> Idle]
  /\ resp = [p \in Workers |-> NoResponse]
  /\ posts = EmptyPosts
  /\ post_likes = {}
  /\ post_comments = {}
  /\ seq = InitSeq
  /\ users = InitUsers

SpecChecks == InitChecks /\ [][Next]_vars

----------------------------------------------------------------------------
(* Requests whose lines carry any integer: OrderItemBase.quantity is a     *)
(* plain int, so zero and negative quantities reach the handler.  One      *)
(* worker serves client 21.                                                *)

AnyQuantityItem == [food_id : {1, 2, 4}, quantity : {-1, 0, 1}]

NextAnyQuantity ==
  \/ \E data \in OrderCreate : create_order_begin(1, 21, data)
  \/ \E item \in AnyQuantityItem : create_order_line(1, item)
  \/ create_order_commit(1)
  \/ Tick

SpecAnyQuantity == Init /\ [][NextAnyQuantity]_vars

----------------------------------------------------------------------------
(* The life of stored orders: one worker places orders while the owners    *)
(* change their foods and set order statuses.                              *)

LifeFoodUpdate ==
  {d \in FoodUpdate : d.old_price = None /\ d.quantity = None /\ d.expires_at = None}

InitLife ==
  /\ now = 0
  /\ restaurants = InitRestaurants
  /\ foods = (1 :> Food(1, 3, 7, MaxQuantity, MaxTime)) @@ (3 :> Food(2, 3, 7, 1, MaxTime))
  /\ orders = << >>
  /\ req = [p \in Workers |-> Idle]
  /\ resp = [p \in Workers |-> NoResponse]
  /\ posts = EmptyPosts
  /\ post_likes = {}
  /\ post_comments = {}
  /\ seq = InitSeq
  /\ users = InitUsers

NextLife ==
  \/ \E data \in OrderCreate : create_order_begin(1, 21, data)
  \/ \E item \in OrderItemCreate : create_order_line(1, item)
  \/ create_order_commit(1)
  \/ \E food_id \in FoodIds, food_data \in LifeFoodUpdate, user \in Owners :
       update_food(food_id, food_data, user)
  \/ \E order_id \in 1..MaxOrders, status \in OrderStatus, user \in Owners :
       update_order_status(order_id, status, user)
  \/ Tick

SpecLife == InitLife /\ [][NextLife]_vars

----------------------------------------------------------------------------------------------------------------------------------------
(* The race: every worker serves one request for RaceQuantity units of     *)
(* food 2 at restaurant 1, whose stock is (NumWorkers - 1) * RaceQuantity. *)

RaceQuantity == 1

RaceItem == [food_id |-> 2, quantity |-> RaceQuantity]

RaceCreate == [restaurant_id |-> 1, n |-> 1]

InitRace ==
  /\ now = 0
  /\ restaurants = InitRestaurants
  /\ foods = [InitFoods EXCEPT ![2].quantity = (NumWorkers - 1) * RaceQuantity]
  /\ orders = << >>
  /\ req = [p \in Workers |-> Idle]
  /\ resp = [p \in Workers |-> NoResponse]
  /\ posts = EmptyPosts
  /\ post_likes = {}
  /\ post_comments = {}
  /\ seq = InitSeq
  /\ users = InitUsers

NextRace ==
  \/ \E p \in Workers, user \in Clients :
       resp[p] = NoResponse /\ create_order_begin(p, user, RaceCreate)
  \/ \E p \in Workers : create_order_line(p, RaceItem)
  \/ \E p \in Workers : create_order_commit(p)
  \/ Tick

SpecRace == InitRace /\ [][NextRace]_vars

----------------
(* Derived quantities used by the properties *)

RECURSIVE SumItems(_)
SumItems(items) ==
  IF items = << >> THEN 0
  ELSE items[1].price * items[1].quantity + SumItems(Tail(items))

RECURSIVE QuantityOf(_, _)
QuantityOf(items, fid) ==
  IF items = << >> THEN 0
  ELSE (IF items[1].food_id = fid THEN items[1].quantity ELSE 0) + QuantityOf(Tail(items), fid)

RECURSIVE CommittedQuantity(_, _)
CommittedQuantity(os, fid) ==
  IF os = << >> THEN 0
  ELSE QuantityOf(os[1].items, fid) + CommittedQuantity(Tail(os), fid)

(* The step is one of worker p's create_order *)
Moved(p) == req'[p] # req[p] \/ resp'[p] # resp[p]

(* The step is the commit of worker p's create_order *)
Committed(p) == req[p].pc = "loop" /\ req'[p].pc = "idle" /\ resp'[p].code = 201

(* The step is a line of worker p's create_order that passed its checks *)
LinePassed(p) == req[p].pc = "loop" /\ req'[p].pc = "loop" /\ req'[p].i = req[p].i + 1

----------------------------------------------------------------------------
(* C1: every step of a create_order request other than its successful      *)
(* commit (the restaurant check, a line that passes, a line that fails and *)
(* ends the request with 400 or 404) leaves every stored food and the      *)
(* stored orders with their line items as they were; so a request that     *)
(* fails at any line has changed no quantity and created nothing, also     *)
(* when earlier lines had passed.                                          *)
C1_FailedOrderLeavesNoTrace ==
  [][\A p \in Workers :
       (Moved(p) /\ ~Committed(p)) => (foods' = foods /\ orders' = orders)]_vars

(* A request failed at its second line for lack of quantity, after its     *)
(* first line had passed and been deducted in the session.                 *)
C1_Witness ==
  \E p \in Workers :
    /\ resp[p].code = 400 /\ resp[p].reason = "not_enough_quantity" /\ resp[p].line = 2
    /\ orders = << >> /\ foods = InitFoods

----------------------------------------------------------------------------
(* C4: the total_amount of every stored order is the sum of price times    *)
(* quantity over its line items, and each line item's price is the listed  *)
(* price of its food (no price changes under this specification, so the    *)
(* listed price is the price at the time of the call).                     *)
C4_TotalIsSumOfLines ==
  \A o \in 1..Len(orders) :
    /\ orders[o].total_amount = SumItems(orders[o].items)
    /\ \A k \in 1..Len(orders[o].items) :
         /\ orders[o].items[k].food_id \in DOMAIN foods
         /\ orders[o].items[k].price = foods[orders[o].items[k].food_id].price

(* An order of two lines on foods of different prices: 2 x 3 + 1 x 5 *)
C4_Witness ==
  \E o \in 1..Len(orders) :
    /\ Len(orders[o].items) = 2
    /\ orders[o].items[1].price # orders[o].items[2].price
    /\ orders[o].items[1].quantity = 2
    /\ orders[o].total_amount = 11

----------------------------------------------------------------------------
(* C5: a line that passes leaves the food's quantity, as the request holds *)
(* it, at its quantity before the line minus the requested quantity, never *)
(* below zero; the commit stores for every food of the request the         *)
(* quantity the request read minus all it requested of that food, changes  *)
(* no other food, and stores no negative quantity.                         *)
C5_QuantityDecrement ==
  [][\A p \in Workers :
       /\ LinePassed(p) =>
            LET item == req'[p].data.items[req[p].i]
                before == QueryFood(req[p].session, item.food_id).quantity
                after == req'[p].session[item.food_id].quantity
            IN  after = before - item.quantity /\ after >= 0
       /\ Committed(p) =>
            \A f \in DOMAIN foods :
              /\ foods'[f].quantity >= 0
              /\ IF f \in DOMAIN req[p].session
                   THEN foods'[f].quantity =
                          req[p].loaded[f].quantity - QuantityOf(req[p].data.items, f)
                   ELSE foods'[f] = foods[f]]_vars

(* One order took food 1 in two lines of one unit each and emptied it *)
C5_Witness ==
  \E o \in 1..Len(orders) :
    /\ Len(orders[o].items) = 2
    /\ orders[o].items[1].food_id = 1 /\ orders[o].items[2].food_id = 1
    /\ Len(orders) = 1
    /\ foods[1].quantity = 0

----------------------------------------------------------------------------
(* C7: a line passes the checks of create_order only if the food's         *)
(* expiration time is strictly after the current time.                     *)
C7_ExpiresStrictlyAfterNow ==
  [][\A p \in Workers :
       LinePassed(p) =>
         QueryFood(req[p].session, req'[p].data.items[req[p].i].food_id).expires_at > now]_vars

----------------------------------------------------------------------------
(* C8: the commit of a create_order adds exactly one order, leaves the     *)
(* earlier orders as they were, and the new order is PENDING, has the      *)
(* caller as customer and the requested restaurant, and has one line item  *)
(* per requested line, in order, with that line's food, its requested      *)
(* quantity and the food's price; the response names the new order.        *)
C8_OneOrderOneItemPerLine ==
  [][\A p \in Workers :
       Committed(p) =>
         LET r == req[p]
             o == orders'[Len(orders')]
         IN  /\ Len(orders') = Len(orders) + 1
             /\ SubSeq(orders', 1, Len(orders)) = orders
             /\ resp'[p].order_id = Len(orders')
             /\ o.status = "pending"
             /\ o.completed_at = None
             /\ o.customer_id = r.user
             /\ o.restaurant_id = r.data.restaurant_id
             /\ Len(o.items) = r.n
             /\ Len(r.data.items) = r.n
             /\ \A k \in 1..r.n :
                  /\ o.items[k].food_id = r.data.items[k].food_id
                  /\ o.items[k].quantity = r.data.items[k].quantity
                  /\ o.items[k].price = foods[r.data.items[k].food_id].price]_vars

(* Client 22 got 201 for an order of two lines at restaurant 1 *)
C8_Witness ==
  \E p \in Workers :
    /\ resp[p].code = 201
    /\ orders[resp[p].order_id].customer_id = 22
    /\ orders[resp[p].order_id].restaurant_id = 1
    /\ Len(orders[resp[p].order_id].items) = 2
    /\ orders[resp[p].order_id].items[1].food_id # orders[resp[p].order_id].items[2].food_id

----------------------------------------------------------------------------
(* C2: when each of the NumWorkers concurrent requests for RaceQuantity    *)
(* units has been answered, exactly NumWorkers - 1 were created, exactly   *)
(* one was refused with 400 for lack of quantity, and the stored quantity  *)
(* is not negative.                                                        *)
C2_AllButOneSucceed ==
  (\A p \in Workers : req[p].pc = "idle" /\ resp[p] # NoResponse) =>
    /\ Cardinality({p \in Workers : resp[p].code = 201}) = NumWorkers - 1
    /\ Cardinality({p \in Workers : resp[p].code = 400
                                   /\ resp[p].reason = "not_enough_quantity"}) = 1
    /\ foods[2].quantity >= 0

----------------------------------------------------------------------------
(* C3: with no owner update, the quantities of the committed line items of *)
(* a food never add up to more than the food's initial stock.              *)
C3_NoOversell ==
  \A f \in DOMAIN foods : CommittedQuantity(orders, f) <= InitFoods[f].quantity

----------------------------------------------------------------------------
(* C6: no step changes the total_amount or the line items (food, quantity, *)
(* price) of an order that is already stored, and no order is removed.     *)
C6_OrderAmountsImmutable ==
  [][/\ Len(orders') >= Len(orders)
     /\ \A o \in 1..Len(orders) :
          /\ orders'[o].total_amount = orders[o].total_amount
          /\ orders'[o].items = orders[o].items]_vars

(* The food of a stored line item is now listed at another price and the   *)
(* order has moved on from PENDING; the line keeps the price at order time *)
C6_Witness ==
  \E o \in 1..Len(orders) :
    /\ orders[o].status # "pending"
    /\ Len(orders[o].items) >= 1
    /\ orders[o].items[1].price # foods[orders[o].items[1].food_id].price
    /\ orders[o].total_amount = SumItems(orders[o].items)

----------------------------------------------------------------------------
(* C9: for every stored order and every status, the status update by the   *)
(* owner of the order's restaurant is accepted whatever the order's        *)
(* present status, and it leaves the order with the requested status.      *)
C9_AnyStatusFromAnyStatus ==
  /\ [](\A o \in 1..Len(orders), s \in OrderStatus :
          ENABLED update_order_status(o, s, restaurants[orders[o].restaurant_id].owner_id))
  /\ [][\A o \in 1..Len(orders), s \in OrderStatus, u \in Owners :
          update_order_status(o, s, u) => orders'[o].status = s]_vars

(* An order that was completed is PENDING again *)
C9_Witness ==
  \E o \in 1..Len(orders) :
    orders[o].completed_at # None /\ orders[o].status = "pending"

----------------------------------------------------------------------------
(* C10: a step that changes a stored order stamps completed_at with the    *)
(* current time when it sets the status COMPLETED, and leaves completed_at *)
(* as it was when it sets any other status.                                *)
C10_CompletedAtOnlyOnCompleted ==
  [][\A o \in 1..Len(orders) :
       orders'[o] # orders[o] =>
         IF orders'[o].status = "completed"
           THEN orders'[o].completed_at = Some(now)
           ELSE orders'[o].completed_at = orders[o].completed_at]_vars

(* An order completed at time 1 is now CANCELLED and keeps that stamp *)
C10_Witness ==
  \E o \in 1..Len(orders) :
    orders[o].completed_at = Some(1) /\ orders[o].status = "cancelled"

----------------------------------------------------------------------------
(* Handlers that answer in one step: who may call them, what they return   *)

(* Depends(require_role(roles)): the caller's role is one of the roles     *)
require_role(roles, user) == Role(user) \in roles

Forbidden(reason) == HTTPException(403, reason, 0, 0)

NotFound(reason) == HTTPException(404, reason, 0, 0)

(* The value a handler returns; of a stored row the body keeps the id *)
Returned(what, body) ==
  [code |-> 200, reason |-> what, food_id |-> 0, line |-> 0, order_id |-> 0,
   available |-> 0, body |-> body]

(* Variant: the caller need only own some restaurant *)
UpdateOrderStatusError_anyOwner(order_id, user) ==
  IF ~require_role({"restaurant"}, user) THEN Forbidden("role")
  ELSE IF order_id \notin 1..Len(orders) THEN NotFound("order_not_found")
  ELSE IF ~\E rid \in DOMAIN restaurants : OwnsRestaurant(user, rid)
    THEN Forbidden("not_your_order")
  ELSE NoResponse

(* The exception update_order_status raises before it touches the order,   *)
(* or NoResponse when it goes on to set the status.                        *)
UpdateOrderStatusError(order_id, user) ==
  IF ~require_role({"restaurant"}, user) THEN Forbidden("role")
  ELSE IF order_id \notin 1..Len(orders) THEN NotFound("order_not_found")
  ELSE IF ~OwnsRestaurant(user, orders[order_id].restaurant_id)
    THEN Forbidden("not_your_order")
  ELSE NoResponse

(* update_order_status with its response, served by worker p *)
update_order_status_served(p, order_id, status, user) ==
  LET error == UpdateOrderStatusError(order_id, user) IN
  /\ req[p].pc = "idle"
  /\ IF error # NoResponse
       THEN /\ resp' = [resp EXCEPT ![p] = error]
            /\ UNCHANGED orders
       ELSE /\ orders' = [orders EXCEPT ![order_id] = SetStatus(orders[order_id], status, now)]
            /\ resp' = [resp EXCEPT ![p] = Returned("order", orders'[order_id])]
  /\ UNCHANGED <<now, users, restaurants, foods, req>>
  /\ UNCHANGED feed

RECURSIVE SumQuantity(_)
SumQuantity(rows) ==
  IF rows = << >> THEN 0 ELSE rows[1].quantity + SumQuantity(Tail(rows))

(* Variant: the orders are counted whatever their status *)
CompletedItems_anyStatus(user) ==
  LET RECURSIVE Join(_)
      Join(o) == IF o > Len(orders) THEN << >>
                 ELSE (IF orders[o].customer_id = user THEN orders[o].items ELSE << >>)
                      \o Join(o + 1)
  IN Join(1)

(* The order_items rows joined to the caller's COMPLETED orders *)
CompletedItems(user) ==
  LET RECURSIVE Join(_)
      Join(o) == IF o > Len(orders) THEN << >>
                 ELSE (IF orders[o].customer_id = user /\ orders[o].status = "completed"
                         THEN orders[o].items ELSE << >>)
                      \o Join(o + 1)
  IN Join(1)

(* round(total_items * 0.18, 1), in tenths: 18 * total_items is even, so   *)
(* no product lies half way between two tenths.                            *)
Co2Saved(total_items) == (18 * total_items + 5) \div 10

ImpactStats(user) ==
  LET total_items == SumQuantity(CompletedItems(user)) IN
  [meals_rescued |-> total_items, co2_saved |-> Co2Saved(total_items),
   meals_goal |-> 30, co2_goal |-> 100]

get_impact_stats(p, user) ==
  /\ req[p].pc = "idle"
  /\ resp' = [resp EXCEPT ![p] = IF ~require_role({"client"}, user) THEN Forbidden("role")
                                  ELSE Returned("stats", ImpactStats(user))]
  /\ UNCHANGED <<now, users, restaurants, foods, orders, req>>
  /\ UNCHANGED feed

----------------------------------------------------------------------------
(* Access to stored orders: worker 1 places the clients' orders, worker 2  *)
(* serves the status updates and the statistics of any user.               *)

(* The statuses the owners set here: one that completes an order and one   *)
(* that does not                                                           *)
AccessStatus == {"confirmed", "completed"}

InitAccess ==
  /\ now = 0
  /\ restaurants = InitRestaurants
  /\ foods = (1 :> Food(1, 3, 7, MaxQuantity, MaxTime)) @@ (3 :> Food(2, 3, 7, 1, MaxTime))
  /\ orders = << >>
  /\ req = [p \in Workers |-> Idle]
  /\ resp = [p \in Workers |-> NoResponse]
  /\ posts = EmptyPosts
  /\ post_likes = {}
  /\ post_comments = {}
  /\ seq = InitSeq
  /\ users = InitUsers

NextAccess ==
  \/ \E user \in Clients, data \in OrderCreate : create_order_begin(1, user, data)
  \/ \E item \in OrderItemCreate : create_order_line(1, item)
  \/ create_order_commit(1)
  \/ \E order_id \in 1..(MaxOrders + 1), status \in AccessStatus, user \in Users :
       update_order_status_served(2, order_id, status, user)
  \/ \E user \in Users : get_impact_stats(2, user)

SpecAccess == InitAccess /\ [][NextAccess]_vars

----------------------------------------------------------------------------
(* C11: update_order_status changes an order only when the caller owns the *)
(* restaurant of the order; a caller with the restaurant role who does not *)
(* own it is answered 403 and the order keeps its status and completed_at; *)
(* for an order that does not exist such a caller is answered 404.         *)
C11_OnlyOwnerChangesOrder ==
  [][\A p \in Workers :
       resp'[p] # resp[p] \/ orders' # orders =>
         \A order_id \in 1..(MaxOrders + 1), user \in Users :
           LET exists == order_id \in 1..Len(orders)
               owner == /\ exists
                        /\ orders[order_id].restaurant_id \in DOMAIN restaurants
                        /\ restaurants[orders[order_id].restaurant_id].owner_id = user
               (* the status asked for shows only when the order is changed *)
               status == IF order_id \in 1..Len(orders') THEN orders'[order_id].status
                         ELSE "pending"
           IN update_order_status_served(p, order_id, status, user) =>
                /\ orders' # orders => owner
                /\ Role(user) = "restaurant" /\ exists /\ ~owner =>
                     /\ resp'[p].code = 403
                     /\ orders'[order_id].status = orders[order_id].status
                     /\ orders'[order_id].completed_at = orders[order_id].completed_at
                /\ Role(user) = "restaurant" /\ ~exists =>
                     resp'[p].code = 404 /\ orders' = orders]_vars

(* An owner of another restaurant was refused while an order is stored and *)
(* still pending                                                           *)
C11_Witness ==
  \E p \in Workers :
    /\ resp[p].code = 403
    /\ resp[p].reason = "not_your_order"
    /\ \E o \in 1..Len(orders) : orders[o].status = "pending"

(* The units of the lines of the customer's COMPLETED orders *)
CompletedUnits(user) ==
  {x \in (1..Len(orders)) \X (1..MaxItems) \X (1..MaxQuantity) :
     /\ orders[x[1]].customer_id = user
     /\ orders[x[1]].status = "completed"
     /\ x[2] <= Len(orders[x[1]].items)
     /\ x[3] <= orders[x[1]].items[x[2]].quantity}

(* C13: get_impact_stats reports as meals_rescued the sum of the line      *)
(* quantities of the caller's orders whose status is COMPLETED, 0 when     *)
(* there are none, with the goals 30 and 10.0, and changes nothing stored. *)
C13_ImpactStats ==
  [][\A p \in Workers, user \in Clients :
       get_impact_stats(p, user) =>
         /\ resp'[p].code = 200
         /\ resp'[p].body.meals_rescued = Cardinality(CompletedUnits(user))
         /\ resp'[p].body.meals_goal = 30
         /\ resp'[p].body.co2_goal = 100
         /\ UNCHANGED <<restaurants, foods, orders, posts, post_likes, post_comments>>]_vars

(* Statistics that count a completed order were returned while an order    *)
(* with lines is stored that is not completed                              *)
C13_Witness ==
  \E p \in Workers :
    /\ resp[p].reason = "stats"
    /\ resp[p].body.meals_rescued > 0
    /\ \E o \in 1..Len(orders) : orders[o].status # "completed" /\ orders[o].items # << >>

----------------------------------------------------------------------------
(* Restaurants: registration by a user with the restaurant role, decision  *)
(* by an admin, update and deletion.  A handler whose write depends on     *)
(* what it read is cut between its query and its db.commit().              *)

MaxRestaurants == 4

Reasons == {"", "unsafe"}

(* Coordinates: one value inside the range and one outside *)
RestaurantCreate == [name : {"a"}, latitude : {0, 91}, longitude : {0, 181}]

RestaurantUpdate == [name : {None} \cup {Some(v) : v \in Names}]

RestaurantReject == [reason : Reasons]

Conflict(reason) == HTTPException(409, reason, 0, 0)

BadRequest(reason) == HTTPException(400, reason, 0, 0)

ServerError(reason) == HTTPException(500, reason, 0, 0)

(* The restaurants db.query(Restaurant).filter(owner_id == user) finds *)
RestaurantsOf(user) == {rid \in DOMAIN restaurants : restaurants[rid].owner_id = user}

Registering == Cardinality({p \in Workers : req[p].pc = "create_restaurant"})

CreateRestaurantError(user, restaurant_data) ==
  IF ~require_role({"restaurant"}, user) THEN Forbidden("role")
  ELSE IF RestaurantsOf(user) # {} THEN Conflict("already_registered")
  ELSE IF ~(-90 <= restaurant_data.latitude /\ restaurant_data.latitude <= 90)
    THEN BadRequest("latitude")
  ELSE IF ~(-180 <= restaurant_data.longitude /\ restaurant_data.longitude <= 180)
    THEN BadRequest("longitude")
  ELSE NoResponse

(* create_restaurant up to db.add: the query for an existing restaurant    *)
(* and the checks of the coordinates                                       *)
create_restaurant_begin(p, user, restaurant_data) ==
  LET error == CreateRestaurantError(user, restaurant_data) IN
  /\ req[p].pc = "idle"
  /\ seq.restaurants + Registering <= MaxRestaurants
  /\ IF error # NoResponse
       THEN /\ resp' = [resp EXCEPT ![p] = error]
            /\ UNCHANGED req
       ELSE /\ req' = [req EXCEPT ![p] = [Idle EXCEPT !.pc = "create_restaurant", !.user = user,
                                                      !.data = restaurant_data]]
            /\ resp' = [resp EXCEPT ![p] = NoResponse]
  /\ UNCHANGED <<now, users, restaurants, foods, orders, posts, post_likes, post_comments, seq>>

(* db.commit() of create_restaurant: the row is inserted under the next id *)
create_restaurant_commit(p) ==
  /\ req[p].pc = "create_restaurant"
  /\ restaurants' = (seq.restaurants :> Restaurant(req[p].user, req[p].data.name)) @@ restaurants
  /\ seq' = [seq EXCEPT !.restaurants = @ + 1]
  /\ resp' = [resp EXCEPT ![p] =
                [Returned("restaurant", seq.restaurants) EXCEPT !.code = 201]]
  /\ req' = [req EXCEPT ![p] = Idle]
  /\ UNCHANGED <<now, users, foods, orders, posts, post_likes, post_comments>>

(* What approve_restaurant and reject_restaurant check before they assign *)
DecisionError(restaurant_id, user) ==
  IF ~require_role({"admin"}, user) THEN Forbidden("role")
  ELSE IF restaurant_id \notin DOMAIN restaurants THEN NotFound("restaurant_not_found")
  ELSE IF restaurants[restaurant_id].status # "pending" THEN BadRequest("not_pending")
  ELSE NoResponse

(* The query and the checks of approve_restaurant (kind "approve") and of  *)
(* reject_restaurant (kind "reject", with the reason of the request)       *)
decide_restaurant_begin(p, kind, restaurant_id, reject_data, user) ==
  LET error == DecisionError(restaurant_id, user) IN
  /\ req[p].pc = "idle"
  /\ IF error # NoResponse
       THEN /\ resp' = [resp EXCEPT ![p] = error]
            /\ UNCHANGED req
       ELSE /\ req' = [req EXCEPT ![p] = [Idle EXCEPT !.pc = kind, !.user = user,
                                            !.data = [restaurant_id |-> restaurant_id,
                                                      reason |-> reject_data.reason]]]
            /\ resp' = [resp EXCEPT ![p] = NoResponse]
  /\ UNCHANGED <<now, users, restaurants, foods, orders, posts, post_likes, post_comments, seq>>

(* db.commit() of approve_restaurant and reject_restaurant: an UPDATE of   *)
(* the columns assigned, by id; it fails when the row is gone.             *)
decide_restaurant_commit(p) ==
  LET rid == req[p].data.restaurant_id IN
  /\ req[p].pc \in {"approve", "reject"}
  /\ IF rid \notin DOMAIN restaurants
       THEN /\ resp' = [resp EXCEPT ![p] = ServerError("stale_data")]
            /\ UNCHANGED restaurants
       ELSE /\ restaurants' =
                 [restaurants EXCEPT ![rid] =
                    IF req[p].pc = "approve"
                      THEN [@ EXCEPT !.status = "approved", !.approved_at = Some(now)]
                      ELSE [@ EXCEPT !.status = "rejected",
                                     !.rejection_reason = Some(req[p].data.reason)]]
            /\ resp' = [resp EXCEPT ![p] = Returned("restaurant", rid)]
  /\ req' = [req EXCEPT ![p] = Idle]
  /\ UNCHANGED <<now, users, foods, orders, posts, post_likes, post_comments, seq>>

approve_restaurant_begin(p, restaurant_id, user) ==
  decide_restaurant_begin(p, "approve", restaurant_id, [reason |-> ""], user)

reject_restaurant_begin(p, restaurant_id, reject_data, user) ==
  decide_restaurant_begin(p, "reject", restaurant_id, reject_data, user)

(* update_restaurant: the fields of RestaurantUpdate that were sent are    *)
(* assigned to the caller's own restaurant.                                *)
update_restaurant(p, restaurant_id, restaurant_data, user) ==
  /\ req[p].pc = "idle"
  /\ IF ~require_role({"restaurant"}, user)
       THEN resp' = [resp EXCEPT ![p] = Forbidden("role")] /\ UNCHANGED restaurants
     ELSE IF restaurant_id \notin RestaurantsOf(user)
       THEN resp' = [resp EXCEPT ![p] = NotFound("restaurant_not_found")]
            /\ UNCHANGED restaurants
     ELSE /\ restaurants' =
               [restaurants EXCEPT ![restaurant_id].name =
                  IF restaurant_data.name = None THEN @ ELSE restaurant_data.name[1]]
          /\ resp' = [resp EXCEPT ![p] = Returned("restaurant", restaurant_id)]
  /\ UNCHANGED <<now, users, foods, orders, posts, post_likes, post_comments, seq, req>>

(* Rows that keep db.delete(restaurant) from committing: the orders of the *)
(* restaurant and the order lines of its foods, which the flush would      *)
(* leave without the parent their NOT NULL column needs, and the posts     *)
(* whose foreign key names the restaurant.                                 *)
RestaurantIsReferenced(restaurant_id) ==
  \/ \E o \in 1..Len(orders) : orders[o].restaurant_id = restaurant_id
  \/ \E o \in 1..Len(orders) : \E k \in 1..Len(orders[o].items) :
       /\ orders[o].items[k].food_id \in DOMAIN foods
       /\ foods[orders[o].items[k].food_id].restaurant_id = restaurant_id
  \/ \E id \in DOMAIN posts : posts[id].restaurant_id = Some(restaurant_id)

(* cascade="all, delete-orphan" of Restaurant.foods *)
WithoutFoodsOf(restaurant_id) ==
  [f \in {g \in DOMAIN foods : foods[g].restaurant_id # restaurant_id} |-> foods[f]]

delete_restaurant(p, restaurant_id, user) ==
  /\ req[p].pc = "idle"
  /\ IF ~require_role({"admin", "restaurant"}, user)
       THEN resp' = [resp EXCEPT ![p] = Forbidden("role")] /\ UNCHANGED <<restaurants, foods>>
     ELSE IF restaurant_id \notin DOMAIN restaurants
       THEN resp' = [resp EXCEPT ![p] = NotFound("restaurant_not_found")]
            /\ UNCHANGED <<restaurants, foods>>
     ELSE IF Role(user) # "admin" /\ restaurants[restaurant_id].owner_id # user
       THEN resp' = [resp EXCEPT ![p] = Forbidden("not_your_restaurant")]
            /\ UNCHANGED <<restaurants, foods>>
     ELSE IF RestaurantIsReferenced(restaurant_id)
       THEN resp' = [resp EXCEPT ![p] = ServerError("integrity_error")]
            /\ UNCHANGED <<restaurants, foods>>
     ELSE /\ restaurants' = [r \in DOMAIN restaurants \ {restaurant_id} |-> restaurants[r]]
          /\ foods' = WithoutFoodsOf(restaurant_id)
          /\ resp' = [resp EXCEPT ![p] = [Returned("restaurant_deleted", None) EXCEPT !.code = 204]]
  /\ UNCHANGED <<now, users, orders, posts, post_likes, post_comments, seq, req>>

(* Variant: nothing holds a food back from being deleted *)
FoodIsReferenced_never(food_id) == FALSE

(* Food.order_items has no cascade: db.delete(food) sets the food_id of    *)
(* the food's order items to NULL, which their NOT NULL column refuses.    *)
FoodIsReferenced(food_id) ==
  \E o \in 1..Len(orders) : \E k \in 1..Len(orders[o].items) :
    orders[o].items[k].food_id = food_id

delete_food(p, food_id, user) ==
  /\ req[p].pc = "idle"
  /\ IF ~require_role({"restaurant"}, user)
       THEN resp' = [resp EXCEPT ![p] = Forbidden("role")] /\ UNCHANGED foods
     ELSE IF food_id \notin DOMAIN foods
       THEN resp' = [resp EXCEPT ![p] = NotFound("food_not_found")] /\ UNCHANGED foods
     ELSE IF ~OwnsRestaurant(user, foods[food_id].restaurant_id)
       THEN resp' = [resp EXCEPT ![p] = Forbidden("not_your_food")] /\ UNCHANGED foods
     ELSE IF FoodIsReferenced(food_id)
       THEN resp' = [resp EXCEPT ![p] = ServerError("food_is_ordered")] /\ UNCHANGED foods
     ELSE /\ foods' = [f \in DOMAIN foods \ {food_id} |-> foods[f]]
          /\ resp' = [resp EXCEPT ![p] = [Returned("food_deleted", None) EXCEPT !.code = 204]]
  /\ UNCHANGED <<now, users, restaurants, orders, posts, post_likes, post_comments, seq, req>>

(* Deleting what is ordered: worker 1 places the orders of client 21 while *)
(* worker 2 serves the owners and the admin, who delete foods and          *)
(* restaurants.                                                            *)
NextDeletes ==
  \/ \E data \in OrderCreate : create_order_begin(1, 21, data)
  \/ \E item \in OrderItemCreate : create_order_line(1, item)
  \/ create_order_commit(1)
  \/ \E food_id \in FoodIds, user \in Owners \cup Admins : delete_food(2, food_id, user)
  \/ \E restaurant_id \in RestaurantIds, user \in Owners \cup Admins :
       delete_restaurant(2, restaurant_id, user)

SpecDeletes == Init /\ [][NextDeletes]_vars

----------------------------------------------------------------------------
(* The life of restaurants: users register them, admins decide, owners     *)
(* update and delete, every worker serving any of the requests.  Owner 12  *)
(* has deleted restaurant 2; the callers are the admin, the owner of       *)
(* restaurant 1 and a user who has none.                                   *)

Callers == Admins \cup {11} \cup Applicants

InitRestaurant ==
  /\ now = 0
  /\ restaurants = (1 :> InitRestaurants[1])
  /\ foods = (1 :> InitFoods[1]) @@ (2 :> InitFoods[2])
  /\ orders = << >>
  /\ req = [p \in Workers |-> Idle]
  /\ resp = [p \in Workers |-> NoResponse]
  /\ posts = EmptyPosts
  /\ post_likes = {}
  /\ post_comments = {}
  /\ seq = InitSeq
  /\ users = InitUsers

NextRestaurant ==
  \/ \E p \in Workers, user \in Callers, restaurant_data \in RestaurantCreate :
       create_restaurant_begin(p, user, restaurant_data)
  \/ \E p \in Workers : create_restaurant_commit(p)
  \/ \E p \in Workers, restaurant_id \in 1..MaxRestaurants, user \in Callers :
       approve_restaurant_begin(p, restaurant_id, user)
  \/ \E p \in Workers, restaurant_id \in 1..MaxRestaurants, reject_data \in RestaurantReject,
        user \in Callers :
       reject_restaurant_begin(p, restaurant_id, reject_data, user)
  \/ \E p \in Workers : decide_restaurant_commit(p)
  \/ \E p \in Workers, restaurant_id \in 1..MaxRestaurants, restaurant_data \in RestaurantUpdate,
        user \in Callers :
       update_restaurant(p, restaurant_id, restaurant_data, user)
  \/ \E p \in Workers, restaurant_id \in 1..MaxRestaurants, user \in Callers :
       delete_restaurant(p, restaurant_id, user)

SpecRestaurant == InitRestaurant /\ [][NextRestaurant]_vars

----------------------------------------------------------------------------
(* Reading orders *)

(* The orders among ids, newest first *)
OrdersWhere(ids) ==
  LET RECURSIVE Desc(_)
      Desc(o) == IF o = 0 THEN << >>
                 ELSE (IF o \in ids THEN <<o>> ELSE << >>) \o Desc(o - 1)
  IN Desc(Len(orders))

(* The row .first() returns of the restaurants the caller owns: any of     *)
(* them, the query has no ORDER BY; None when the caller owns none.        *)
FirstRestaurantOf(user) ==
  IF RestaurantsOf(user) = {} THEN {None} ELSE {Some(rid) : rid \in RestaurantsOf(user)}

(* What get_orders returns when .first() gave restaurant *)
GetOrders(user, restaurant) ==
  IF Role(user) = "client"
    THEN OrdersWhere({o \in 1..Len(orders) : orders[o].customer_id = user})
  ELSE IF Role(user) = "restaurant"
    THEN IF restaurant = None THEN << >>
         ELSE OrdersWhere({o \in 1..Len(orders) : orders[o].restaurant_id = restaurant[1]})
  ELSE IF Role(user) = "admin"
    THEN OrdersWhere(1..Len(orders))
  ELSE << >>

get_orders(p, user) ==
  /\ req[p].pc = "idle"
  /\ \E restaurant \in FirstRestaurantOf(user) :
       resp' = [resp EXCEPT ![p] = Returned("orders", GetOrders(user, restaurant))]
  /\ UNCHANGED <<now, users, restaurants, foods, orders, posts, post_likes, post_comments, seq, req>>

(* What get_order answers when .first() gave restaurant *)
GetOrder(order_id, user, restaurant) ==
  IF order_id \notin 1..Len(orders) THEN NotFound("order_not_found")
  ELSE IF Role(user) = "client" /\ orders[order_id].customer_id # user
    THEN Forbidden("not_your_order")
  ELSE IF Role(user) = "restaurant"
          /\ (restaurant = None \/ orders[order_id].restaurant_id # restaurant[1])
    THEN Forbidden("not_your_restaurant")
  ELSE Returned("order", order_id)

get_order(p, order_id, user) ==
  /\ req[p].pc = "idle"
  /\ \E restaurant \in FirstRestaurantOf(user) :
       resp' = [resp EXCEPT ![p] = GetOrder(order_id, user, restaurant)]
  /\ UNCHANGED <<now, users, restaurants, foods, orders, posts, post_likes, post_comments, seq, req>>

----------------------------------------------------------------------------
(* create_food *)

MaxFoods == 4

(* A request to list a food: prices and quantities on both sides of zero,  *)
(* expiry now or later, the original price possibly left out.              *)
FoodCreate ==
  [restaurant_id : RestaurantIds, price : {0, 3}, old_price : {None, Some(3), Some(5)},
   quantity : {-1, 1}, expires_at : {0, MaxTime}]

(* The exception create_food raises, or NoResponse when it stores the food. *)
(* Comparing an original price that was left out with 0 raises a TypeError *)
(* that the handler turns into 500.                                        *)
CreateFoodError(food_data, user, utcnow) ==
  IF ~require_role({"restaurant"}, user) THEN Forbidden("role")
  ELSE IF ~OwnsRestaurant(user, food_data.restaurant_id) THEN Forbidden("not_your_restaurant")
  ELSE IF restaurants[food_data.restaurant_id].status # "approved"
    THEN BadRequest("restaurant_not_approved")
  ELSE IF food_data.expires_at <= utcnow THEN BadRequest("expires_in_the_past")
  ELSE IF food_data.price <= 0 THEN BadRequest("price_not_positive")
  ELSE IF food_data.old_price = None THEN ServerError("unexpected")
  ELSE IF food_data.old_price[1] <= 0 THEN BadRequest("price_not_positive")
  ELSE IF food_data.price >= food_data.old_price[1] THEN BadRequest("price_not_below_old_price")
  ELSE NoResponse

create_food(p, food_data, user) ==
  LET error == CreateFoodError(food_data, user, now) IN
  /\ req[p].pc = "idle"
  /\ seq.foods <= MaxFoods
  /\ IF error # NoResponse
       THEN /\ resp' = [resp EXCEPT ![p] = error]
            /\ UNCHANGED <<foods, seq>>
       ELSE /\ foods' = (seq.foods :> Food(food_data.restaurant_id, food_data.price,
                                           food_data.old_price[1], food_data.quantity,
                                           food_data.expires_at)) @@ foods
            /\ seq' = [seq EXCEPT !.foods = @ + 1]
            /\ resp' = [resp EXCEPT ![p] = [Returned("food", seq.foods) EXCEPT !.code = 201]]
  /\ UNCHANGED <<now, users, restaurants, orders, posts, post_likes, post_comments, req>>

----------------------------------------------------------------------------
(* The foods of restaurant 1: its owner lists and updates foods while      *)
(* worker 1 places the orders of client 21.                                *)

InitFood ==
  /\ now = 0
  /\ restaurants = InitRestaurants
  /\ foods = (1 :> InitFoods[1])
  /\ orders = << >>
  /\ req = [p \in Workers |-> Idle]
  /\ resp = [p \in Workers |-> NoResponse]
  /\ posts = EmptyPosts
  /\ post_likes = {}
  /\ post_comments = {}
  /\ seq = InitSeq
  /\ users = InitUsers

(* The updates here set the two prices; the orders have one line *)
FoodPricing == {d \in FoodUpdate : d.quantity = None /\ d.expires_at = None}

NextFood ==
  \/ \E food_data \in FoodCreate, user \in Owners : create_food(2, food_data, user)
  \/ \E food_id \in FoodIds, food_data \in FoodPricing, user \in Owners :
       update_food(food_id, food_data, user)
  \/ \E data \in {d \in OrderCreate : d.n = 1} : create_order_begin(1, 21, data)
  \/ \E item \in OrderItemCreate : create_order_line(1, item)
  \/ create_order_commit(1)

SpecFood == InitFood /\ [][NextFood]_vars

----------------------------------------------------------------------------
(* Reading orders while restaurants are registered: worker 1 places the    *)
(* orders of the clients, both workers register restaurants, worker 2      *)
(* serves the admin's approvals, the listing of a food and the reads of    *)
(* any user.                                                               *)

Registration == [name |-> "a", latitude |-> 0, longitude |-> 0]

Listing(restaurant_id) ==
  [restaurant_id |-> restaurant_id, price |-> 3, old_price |-> Some(5), quantity |-> 1,
   expires_at |-> MaxTime]

InitReads ==
  /\ now = 0
  /\ restaurants = (1 :> InitRestaurants[1])
  /\ foods = (1 :> InitFoods[1])
  /\ orders = << >>
  /\ req = [p \in Workers |-> Idle]
  /\ resp = [p \in Workers |-> NoResponse]
  /\ posts = EmptyPosts
  /\ post_likes = {}
  /\ post_comments = {}
  /\ seq = InitSeq
  /\ users = InitUsers

NextReads ==
  \/ \E p \in Workers, user \in Owners \cup Applicants :
       create_restaurant_begin(p, user, Registration)
  \/ \E p \in Workers : create_restaurant_commit(p)
  \/ \E restaurant_id \in 1..MaxRestaurants, user \in Admins :
       approve_restaurant_begin(2, restaurant_id, user)
  \/ decide_restaurant_commit(2)
  \/ \E restaurant_id \in RestaurantIds, user \in Applicants :
       create_food(2, Listing(restaurant_id), user)
  \/ \E user \in Clients, data \in {d \in OrderCreate : d.n = 1} :
       create_order_begin(1, user, data)
  \/ \E item \in OrderItemCreate : create_order_line(1, item)
  \/ create_order_commit(1)
  \/ \E user \in Users : get_orders(2, user)
  \/ \E order_id \in 1..(MaxOrders + 1), user \in Users : get_order(2, order_id, user)

SpecReads == InitReads /\ [][NextReads]_vars

----------------------------------------------------------------------------
(* Approval and listing together: user 13 registers on worker 1, the admin *)
(* approves and rejects on every worker, the owners list, reprice and      *)
(* delete, and worker 1 places the orders of client 21.                    *)

NextApproval ==
  \/ create_restaurant_begin(1, 13, Registration)
  \/ create_restaurant_commit(1)
  \/ \E p \in Workers, restaurant_id \in {1, 3} : approve_restaurant_begin(p, restaurant_id, 1)
  \/ \E p \in Workers, restaurant_id \in {1, 3} :
       reject_restaurant_begin(p, restaurant_id, [reason |-> "unsafe"], 1)
  \/ \E p \in Workers : decide_restaurant_commit(p)
  \/ \E restaurant_id \in {1, 3}, user \in {11, 13} : create_food(1, Listing(restaurant_id), user)
  \/ \E food_id \in FoodIds, user \in {11, 13} :
       update_food(food_id, [price |-> Some(5), old_price |-> None, quantity |-> None,
                             expires_at |-> None], user)
  \/ \E restaurant_id \in {1, 3}, user \in {11, 13} : delete_restaurant(1, restaurant_id, user)
  \/ \E data \in {d \in OrderCreate : d.n = 1} : create_order_begin(1, 21, data)
  \/ \E item \in OrderItemCreate : create_order_line(1, item)
  \/ create_order_commit(1)

SpecApproval == InitReads /\ [][NextApproval]_vars

----------------------------------------------------------------------------
(* The community feed: posts, likes and comments *)

MaxPosts == 2
MaxLikes == 3
MaxComments == 2

PostCreate == [restaurant_id : {None, Some(1)}]

Post(author, post_data) == [author_id |-> author, restaurant_id |-> post_data.restaurant_id]

PostLike(id, post_id, user) == [id |-> id, post_id |-> post_id, user_id |-> user]

PostComment(id, post_id, author) == [id |-> id, post_id |-> post_id, author_id |-> author]

LikesOf(post_id) == {l \in post_likes : l.post_id = post_id}

CommentsOf(post_id) == {c \in post_comments : c.post_id = post_id}

(* The foreign key of Post.restaurant_id refuses a restaurant that is not  *)
(* stored.                                                                 *)
create_post(p, post_data, user) ==
  /\ req[p].pc = "idle"
  /\ seq.posts <= MaxPosts
  /\ IF post_data.restaurant_id # None /\ post_data.restaurant_id[1] \notin DOMAIN restaurants
       THEN /\ resp' = [resp EXCEPT ![p] = ServerError("foreign_key")]
            /\ UNCHANGED <<posts, seq>>
       ELSE /\ posts' = (seq.posts :> Post(user, post_data)) @@ posts
            /\ seq' = [seq EXCEPT !.posts = @ + 1]
            /\ resp' = [resp EXCEPT ![p] = [Returned("post", seq.posts) EXCEPT !.code = 201]]
  /\ UNCHANGED <<now, users, restaurants, foods, orders, post_likes, post_comments, req>>

Liking == Cardinality({p \in Workers : req[p].pc = "like"})

(* toggle_like up to db.delete or db.add: the post must exist; the like of *)
(* the caller that the query finds decides between unlike and like.        *)
toggle_like_begin(p, post_id, user) ==
  LET existing_like == {l \in LikesOf(post_id) : l.user_id = user} IN
  /\ req[p].pc = "idle"
  /\ seq.likes + Liking <= MaxLikes
  /\ IF post_id \notin DOMAIN posts
       THEN /\ resp' = [resp EXCEPT ![p] = NotFound("post_not_found")]
            /\ UNCHANGED req
       ELSE /\ req' = [req EXCEPT ![p] =
                        [Idle EXCEPT !.pc = IF existing_like # {} THEN "unlike" ELSE "like",
                                     !.user = user,
                                     !.data = [post_id |-> post_id,
                                               like_ids |-> {l.id : l \in existing_like}]]]
            /\ resp' = [resp EXCEPT ![p] = NoResponse]
  /\ UNCHANGED <<now, users, restaurants, foods, orders, posts, post_likes, post_comments, seq>>

(* Variant: the table has no unique constraint on (post_id, user_id) *)
InsertLikeError_noUnique(post_id, user) ==
  IF post_id \notin DOMAIN posts THEN ServerError("foreign_key")
  ELSE NoResponse

(* What the table refuses of an INSERT into post_likes: a post that is not *)
(* stored (foreign key) and a second like of the same user on the same     *)
(* post (unique_post_like).                                                *)
InsertLikeError(post_id, user) ==
  IF post_id \notin DOMAIN posts THEN ServerError("foreign_key")
  ELSE IF \E l \in post_likes : l.post_id = post_id /\ l.user_id = user
    THEN ServerError("unique_post_like")
  ELSE NoResponse

(* Variant: the count is the one from before the toggle *)
LikeResponse_countBefore(is_liked, likes_count) ==
  Returned("like", [success |-> TRUE, is_liked |-> is_liked,
                    likes_count |-> IF is_liked THEN likes_count - 1 ELSE likes_count + 1])

LikeResponse(is_liked, likes_count) ==
  Returned("like", [success |-> TRUE, is_liked |-> is_liked, likes_count |-> likes_count])

(* db.commit() of toggle_like and the count that follows it.  A DELETE     *)
(* that finds its row gone is let through.                                 *)
toggle_like_commit(p) ==
  LET post_id == req[p].data.post_id
      error == InsertLikeError(post_id, req[p].user)
  IN
  /\ req[p].pc \in {"like", "unlike"}
  /\ IF req[p].pc = "unlike"
       THEN /\ post_likes' = {l \in post_likes : l.id \notin req[p].data.like_ids}
            /\ resp' = [resp EXCEPT ![p] =
                          LikeResponse(FALSE, Cardinality({l \in post_likes' : l.post_id = post_id}))]
            /\ UNCHANGED seq
       ELSE IF error # NoResponse
         THEN /\ resp' = [resp EXCEPT ![p] = error]
              /\ UNCHANGED <<post_likes, seq>>
         ELSE /\ post_likes' = post_likes \cup {PostLike(seq.likes, post_id, req[p].user)}
              /\ seq' = [seq EXCEPT !.likes = @ + 1]
              /\ resp' = [resp EXCEPT ![p] =
                            LikeResponse(TRUE, Cardinality({l \in post_likes' : l.post_id = post_id}))]
  /\ req' = [req EXCEPT ![p] = Idle]
  /\ UNCHANGED <<now, users, restaurants, foods, orders, posts, post_comments>>

create_comment(p, post_id, user) ==
  /\ req[p].pc = "idle"
  /\ seq.comments <= MaxComments
  /\ IF post_id \notin DOMAIN posts
       THEN /\ resp' = [resp EXCEPT ![p] = NotFound("post_not_found")]
            /\ UNCHANGED <<post_comments, seq>>
       ELSE /\ post_comments' = post_comments \cup {PostComment(seq.comments, post_id, user)}
            /\ seq' = [seq EXCEPT !.comments = @ + 1]
            /\ resp' = [resp EXCEPT ![p] = [Returned("comment", seq.comments) EXCEPT !.code = 201]]
  /\ UNCHANGED <<now, users, restaurants, foods, orders, posts, post_likes, req>>

delete_comment(p, post_id, comment_id, user) ==
  LET comment == {c \in CommentsOf(post_id) : c.id = comment_id} IN
  /\ req[p].pc = "idle"
  /\ IF comment = {}
       THEN resp' = [resp EXCEPT ![p] = NotFound("comment_not_found")] /\ UNCHANGED post_comments
     ELSE IF (\E c \in comment : c.author_id # user) /\ Role(user) # "admin"
       THEN resp' = [resp EXCEPT ![p] = Forbidden("not_your_comment")]
            /\ UNCHANGED post_comments
     ELSE /\ post_comments' = post_comments \ comment
          /\ resp' = [resp EXCEPT ![p] = [Returned("comment_deleted", None) EXCEPT !.code = 204]]
  /\ UNCHANGED <<now, users, restaurants, foods, orders, posts, post_likes, seq, req>>

(* Variant: the likes of a deleted post stay *)
WithoutPost_likesKept(post_id) == <<post_likes, post_comments \ CommentsOf(post_id)>>

(* cascade="all, delete-orphan" of Post.likes and Post.comments: the likes *)
(* and the comments that are left                                          *)
WithoutPost(post_id) == <<post_likes \ LikesOf(post_id), post_comments \ CommentsOf(post_id)>>

delete_post(p, post_id, user) ==
  /\ req[p].pc = "idle"
  /\ IF post_id \notin DOMAIN posts
       THEN resp' = [resp EXCEPT ![p] = NotFound("post_not_found")]
            /\ UNCHANGED <<posts, post_likes, post_comments>>
     ELSE IF posts[post_id].author_id # user /\ Role(user) # "admin"
       THEN resp' = [resp EXCEPT ![p] = Forbidden("not_your_post")]
            /\ UNCHANGED <<posts, post_likes, post_comments>>
     ELSE /\ posts' = [id \in DOMAIN posts \ {post_id} |-> posts[id]]
          /\ post_likes' = WithoutPost(post_id)[1]
          /\ post_comments' = WithoutPost(post_id)[2]
          /\ resp' = [resp EXCEPT ![p] = [Returned("post_deleted", None) EXCEPT !.code = 204]]
  /\ UNCHANGED <<now, users, restaurants, foods, orders, seq, req>>

----------------------------------------------------------------------------
(* The feed in use: on worker 1 client 21 posts and likes, client 22       *)
(* comments, they and the admin delete, and the owners and the admin       *)
(* delete restaurants; meanwhile worker 2 toggles the likes of client 22.  *)

Members == {21, 22}

NextFeed ==
  \/ \E post_data \in PostCreate : create_post(1, post_data, 21)
  \/ \E post_id \in 1..MaxPosts : toggle_like_begin(1, post_id, 21)
  \/ \E post_id \in 1..MaxPosts : toggle_like_begin(2, post_id, 22)
  \/ \E p \in Workers : toggle_like_commit(p)
  \/ \E post_id \in 1..MaxPosts : create_comment(1, post_id, 22)
  \/ \E post_id \in 1..MaxPosts, comment_id \in 1..MaxComments, user \in Members \cup Admins :
       delete_comment(1, post_id, comment_id, user)
  \/ \E post_id \in 1..MaxPosts, user \in Members \cup Admins : delete_post(1, post_id, user)
  \/ \E restaurant_id \in 1..2, user \in Owners \cup Admins :
       delete_restaurant(1, restaurant_id, user)

SpecFeed == InitRestaurant /\ [][NextFeed]_vars

(* Likes under concurrency: client 21 posts and deletes on worker 1, and   *)
(* both clients toggle their likes on every worker.                        *)

NextLikes ==
  \/ \E post_data \in PostCreate : create_post(1, post_data, 21)
  \/ \E p \in Workers, post_id \in 1..MaxPosts, user \in Members : toggle_like_begin(p, post_id, user)
  \/ \E p \in Workers : toggle_like_commit(p)
  \/ \E post_id \in 1..MaxPosts : delete_post(1, post_id, 21)

SpecLikes == InitRestaurant /\ [][NextLikes]_vars

----------------------------------------------------------------------------
(* Reading the feed *)

PostWithDetails(post_id, user, likes_count, comments_count) ==
  [id |-> post_id, author_id |-> posts[post_id].author_id,
   likes_count |-> likes_count, comments_count |-> comments_count,
   is_liked |-> \E l \in LikesOf(post_id) : l.user_id = user]

(* The rows of posts OUTER JOIN post_likes OUTER JOIN post_comments for    *)
(* one post: every like of the post with every comment of the post, NULL   *)
(* standing in on a side that has none.                                    *)
JoinedRows(post_id) ==
  LET side(ids) == IF ids = {} THEN {None} ELSE {Some(id) : id \in ids}
  IN side({l.id : l \in LikesOf(post_id)}) \X side({c.id : c \in CommentsOf(post_id)})

(* func.count(column) over the group of the post: the rows where the       *)
(* column is not NULL                                                      *)
CountColumn(post_id, column) ==
  Cardinality({row \in JoinedRows(post_id) : row[column] # None})

RECURSIVE NewestFirst(_)
NewestFirst(ids) ==
  IF ids = {} THEN << >>
  ELSE LET newest == CHOOSE id \in ids : \A other \in ids : other <= id
       IN <<newest>> \o NewestFirst(ids \ {newest})

get_all_posts(p, user) ==
  LET page == NewestFirst(DOMAIN posts) IN
  /\ req[p].pc = "idle"
  /\ resp' = [resp EXCEPT ![p] =
       Returned("posts", [k \in 1..Len(page) |->
                            PostWithDetails(page[k], user, CountColumn(page[k], 1),
                                            CountColumn(page[k], 2))])]
  /\ UNCHANGED <<now, users, restaurants, foods, orders, posts, post_likes, post_comments, seq, req>>

get_post(p, post_id, user) ==
  /\ req[p].pc = "idle"
  /\ resp' = [resp EXCEPT ![p] =
       IF post_id \notin DOMAIN posts THEN NotFound("post_not_found")
       ELSE Returned("post", PostWithDetails(post_id, user, Cardinality(LikesOf(post_id)),
                                             Cardinality(CommentsOf(post_id))))]
  /\ UNCHANGED <<now, users, restaurants, foods, orders, posts, post_likes, post_comments, seq, req>>

(* Client 21 posts and the clients like and comment on worker 1; worker 2  *)
(* serves the reads of client 22.                                          *)
NextFeedReads ==
  \/ create_post(1, [restaurant_id |-> None], 21)
  \/ \E post_id \in 1..MaxPosts, user \in Members : toggle_like_begin(1, post_id, user)
  \/ toggle_like_commit(1)
  \/ \E post_id \in 1..MaxPosts, user \in Members : create_comment(1, post_id, user)
  \/ get_all_posts(2, 22)
  \/ \E post_id \in 1..MaxPosts : get_post(2, post_id, 22)

SpecFeedReads == InitRestaurant /\ [][NextFeedReads]_vars

----------------------------------------------------------------------------
(* Accounts: register, login, google_login, google_register *)

(* The highest user id the model gives out *)
MaxUsers == 25

Emails == {"a", "b"}

UserRegister == [email : Emails, password : {"pw"}]

LoginForm == [username : Emails, password : {"pw", "no"}]

(* What verify_google_token returns for the token of the request: None     *)
(* when Google refuses the token, else the e-mail and the id of the        *)
(* Google account.                                                         *)
GoogleTokens == {None} \cup {Some(info) : info \in [email : Emails, google_id : {"g1", "g2"}]}

Unauthorized(reason) == HTTPException(401, reason, 0, 0)

UsersWithEmail(email) == {u \in DOMAIN users : users[u].email = email}

UsersWithGoogle(google_id) == {u \in DOMAIN users : users[u].google_id = Some(google_id)}

SigningUp == Cardinality({p \in Workers : req[p].pc \in {"register", "google_register"}})

(* register up to db.add: the query for the e-mail decides *)
register_begin(p, user_data) ==
  /\ req[p].pc = "idle"
  /\ seq.users + SigningUp <= MaxUsers
  /\ IF UsersWithEmail(user_data.email) # {}
       THEN /\ resp' = [resp EXCEPT ![p] = Conflict("user_exists")]
            /\ UNCHANGED req
       ELSE /\ req' = [req EXCEPT ![p] =
                 [Idle EXCEPT !.pc = "register",
                              !.data = User(user_data.email, Some(user_data.password), None)]]
            /\ resp' = [resp EXCEPT ![p] = NoResponse]
  /\ UNCHANGED <<now, users, restaurants, foods, orders, posts, post_likes, post_comments, seq>>

(* google_register up to db.add: the token, then the query for the e-mail  *)
(* or the Google id                                                        *)
google_register_begin(p, token) ==
  /\ req[p].pc = "idle"
  /\ seq.users + SigningUp <= MaxUsers
  /\ IF token = None
       THEN /\ resp' = [resp EXCEPT ![p] = Unauthorized("invalid_google_token")]
            /\ UNCHANGED req
     ELSE IF UsersWithEmail(token[1].email) \cup UsersWithGoogle(token[1].google_id) # {}
       THEN /\ resp' = [resp EXCEPT ![p] = Conflict("user_exists")]
            /\ UNCHANGED req
     ELSE /\ req' = [req EXCEPT ![p] =
               [Idle EXCEPT !.pc = "google_register",
                            !.data = User(token[1].email, None, Some(token[1].google_id))]]
          /\ resp' = [resp EXCEPT ![p] = NoResponse]
  /\ UNCHANGED <<now, users, restaurants, foods, orders, posts, post_likes, post_comments, seq>>

(* What the users table refuses of an INSERT: its e-mail and its Google id *)
(* columns are unique.                                                     *)
InsertUserError(user) ==
  IF UsersWithEmail(user.email) # {} THEN ServerError("unique_email")
  ELSE IF user.google_id # None /\ UsersWithGoogle(user.google_id[1]) # {}
    THEN ServerError("unique_google_id")
  ELSE NoResponse

(* db.commit() of register and google_register; google_register answers   *)
(* with an access token for the new user.                                  *)
register_commit(p) ==
  LET error == InsertUserError(req[p].data) IN
  /\ req[p].pc \in {"register", "google_register"}
  /\ IF error # NoResponse
       THEN /\ resp' = [resp EXCEPT ![p] = error]
            /\ UNCHANGED <<users, seq>>
       ELSE /\ users' = (seq.users :> req[p].data) @@ users
            /\ seq' = [seq EXCEPT !.users = @ + 1]
            /\ resp' = [resp EXCEPT ![p] =
                 [Returned(IF req[p].pc = "register" THEN "user" ELSE "access_token", seq.users)
                    EXCEPT !.code = 201]]
  /\ req' = [req EXCEPT ![p] = Idle]
  /\ UNCHANGED <<now, restaurants, foods, orders, posts, post_likes, post_comments>>

(* verify_password: a user without a password verifies none *)
verify_password(password, hashed_password) == hashed_password = Some(password)

login(p, form_data) ==
  LET found == UsersWithEmail(form_data.username) IN
  /\ req[p].pc = "idle"
  /\ resp' = [resp EXCEPT ![p] =
       IF \A u \in found : ~verify_password(form_data.password, users[u].hashed_password)
         THEN Unauthorized("bad_credentials")
       ELSE LET user == CHOOSE u \in found : TRUE IN
         IF ~users[user].is_active THEN BadRequest("inactive_user")
         ELSE Returned("access_token", user)]
  /\ UNCHANGED <<now, users, restaurants, foods, orders, posts, post_likes, post_comments, seq, req>>

(* google_login once the query has returned user: the Google id is stored  *)
(* and committed when the user has none, then the activity is checked.     *)
google_login_row(p, user, google_id) ==
  IF users[user].google_id = None /\ UsersWithGoogle(google_id) # {}
    THEN /\ resp' = [resp EXCEPT ![p] = ServerError("unique_google_id")]
         /\ UNCHANGED users
  ELSE /\ users' = IF users[user].google_id = None
                     THEN [users EXCEPT ![user].google_id = Some(google_id)]
                     ELSE users
       /\ resp' = [resp EXCEPT ![p] =
            IF ~users[user].is_active THEN BadRequest("inactive_user")
            ELSE Returned("access_token", user)]

(* google_login: .first() returns any of the users that have the e-mail or *)
(* the Google id of the account.                                           *)
google_login(p, token) ==
  /\ req[p].pc = "idle"
  /\ IF token = None
       THEN /\ resp' = [resp EXCEPT ![p] = Unauthorized("invalid_google_token")]
            /\ UNCHANGED users
     ELSE LET found == UsersWithEmail(token[1].email) \cup UsersWithGoogle(token[1].google_id)
          IN IF found = {}
               THEN /\ resp' = [resp EXCEPT ![p] = NotFound("user_not_found")]
                    /\ UNCHANGED users
               ELSE \E user \in found : google_login_row(p, user, token[1].google_id)
  /\ UNCHANGED <<now, restaurants, foods, orders, posts, post_likes, post_comments, seq, req>>

(* Every worker serves registrations; worker 1 serves the logins. *)
NextAuth ==
  \/ \E p \in Workers, user_data \in UserRegister : register_begin(p, user_data)
  \/ \E p \in Workers, token \in GoogleTokens : google_register_begin(p, token)
  \/ \E p \in Workers : register_commit(p)
  \/ \E form_data \in LoginForm : login(1, form_data)
  \/ \E token \in GoogleTokens : google_login(1, token)

SpecAuth == Init /\ [][NextAuth]_vars

----------------------------------------------------------------------------
(* C14: a restaurant is stored as PENDING; its status moves only from      *)
(* PENDING to APPROVED or from PENDING to REJECTED and then stays, whatever *)
(* approve_restaurant, reject_restaurant and update_restaurant are asked;  *)
(* every REJECTED restaurant has a rejection reason.                       *)
C14_StatusDecidedOnce ==
  [][/\ \A r \in DOMAIN restaurants' \ DOMAIN restaurants : restaurants'[r].status = "pending"
     /\ \A r \in DOMAIN restaurants \cap DOMAIN restaurants' :
          /\ restaurants'[r].status # restaurants[r].status =>
               /\ restaurants[r].status = "pending"
               /\ restaurants'[r].status \in {"approved", "rejected"}
          /\ restaurants'[r].status = "rejected" => restaurants'[r].rejection_reason # None]_vars

(* C15: whatever the interleaving of create_restaurant requests, no user   *)
(* owns more than one restaurant.                                          *)
C15_OneRestaurantPerUser ==
  \A user \in Users : Cardinality(RestaurantsOf(user)) <= 1

(* C17: whatever create_food, update_food and create_order have done,      *)
(* every stored food has price > 0, old_price > 0, price < old_price and   *)
(* quantity >= 0.                                                          *)
C17_FoodsWellFormed ==
  \A f \in DOMAIN foods :
    /\ foods[f].price > 0
    /\ foods[f].old_price > 0
    /\ foods[f].price < foods[f].old_price
    /\ foods[f].quantity >= 0

(* The caller may see the order: its customer, the owner of its            *)
(* restaurant, or an admin                                                 *)
MaySee(user, o) ==
  \/ Role(user) = "admin"
  \/ Role(user) = "client" /\ orders[o].customer_id = user
  \/ /\ Role(user) = "restaurant"
     /\ orders[o].restaurant_id \in DOMAIN restaurants
     /\ restaurants[orders[o].restaurant_id].owner_id = user

(* C12: get_orders returns to a client exactly the orders whose customer   *)
(* is the caller, to a restaurant owner exactly the orders of the          *)
(* restaurant they own and to an admin all orders; get_order returns an    *)
(* order only to a caller who may see it and answers 403 to a client or    *)
(* restaurant-role caller who may not.                                     *)
C12_RoleScopedReads ==
  [][\A p \in Workers :
       resp'[p] # resp[p] =>
         \A user \in Users :
           /\ get_orders(p, user) =>
                {resp'[p].body[k] : k \in 1..Len(resp'[p].body)}
                  = {o \in 1..Len(orders) : MaySee(user, o)}
           /\ \A order_id \in 1..Len(orders) :
                get_order(p, order_id, user) =>
                  IF MaySee(user, order_id) THEN resp'[p].code \in {200, 403}
                  ELSE resp'[p].code = 403]_vars
----------------------------------------------------------------------------
(* C16: under any interleaving of toggle_like requests, at most one like   *)
(* record exists per (post, user) pair.                                    *)
C16_OneLikePerPostAndUser ==
  \A l1 \in post_likes, l2 \in post_likes :
    (l1.post_id = l2.post_id /\ l1.user_id = l2.user_id) => l1 = l2

(* Two requests of one user both found no like; the second INSERT was      *)
(* refused and the first like is stored.                                   *)
C16_Witness ==
  \E p \in Workers :
    /\ resp[p].reason = "unique_post_like"
    /\ \E l \in post_likes : l.user_id \in Members

----------------------------------------------------------------------------
(* C20: once delete_post has succeeded no like and no comment references   *)
(* the post, and once delete_restaurant has succeeded no food references   *)
(* the restaurant.  Ids are never given out twice, so this is: every like  *)
(* and every comment belongs to a stored post, every food to a stored      *)
(* restaurant.                                                             *)
C20_DeleteTakesChildren ==
  /\ \A l \in post_likes : l.post_id \in DOMAIN posts
  /\ \A c \in post_comments : c.post_id \in DOMAIN posts
  /\ \A f \in DOMAIN foods : foods[f].restaurant_id \in DOMAIN restaurants

(* Worker 2 found the like of client 22 and has not yet removed it; the    *)
(* post was deleted meanwhile and the like went with it.  Restaurant 1 has *)
(* just been deleted and its two foods with it.                            *)
C20_Witness ==
  /\ req[2].pc = "unlike"
  /\ req[2].data.like_ids # {}
  /\ req[2].data.post_id \notin DOMAIN posts
  /\ post_likes = {}
  /\ resp[1].reason = "restaurant_deleted"
  /\ 1 \notin DOMAIN restaurants
  /\ DOMAIN foods = {}

----------------------------------------------------------------------------
(* C18: create_order reports the first precondition that fails, in a fixed *)
(* order.  A request enters the loop over its lines only when its          *)
(* restaurant is stored, and the 404 of a missing restaurant comes with no *)
(* line read.  Each line then either passes, when it violates nothing, or  *)
(* ends the request with the earliest violated precondition of: food       *)
(* missing (404), food of another restaurant (400), requested quantity     *)
(* above the available one (400, with the available quantity), food        *)
(* expired (400); the error names the food of the line.                    *)
CheckOrder == <<"food_not_found", "wrong_restaurant", "not_enough_quantity", "expired">>

Violates(reason, p, item) ==
  IF item.food_id \notin DOMAIN foods THEN reason = "food_not_found"
  ELSE LET food == QueryFood(req[p].session, item.food_id) IN
    CASE reason = "food_not_found" -> FALSE
      [] reason = "wrong_restaurant" -> food.restaurant_id # req[p].data.restaurant_id
      [] reason = "not_enough_quantity" -> item.quantity > food.quantity
      [] reason = "expired" -> now > food.expires_at

C18_FirstFailureReported ==
  [][\A p \in Workers :
       /\ (req[p].pc = "idle" /\ req'[p].pc = "loop")
            => /\ req'[p].data.restaurant_id \in DOMAIN restaurants
               /\ req'[p].data.items = << >>
       /\ (req[p].pc = "idle" /\ resp'[p] # resp[p] /\ resp'[p].reason = "restaurant_not_found")
            => /\ resp'[p].code = 404
               /\ req'[p] = Idle
       /\ (req[p].pc = "loop" /\ req[p].i <= req[p].n /\ req'[p] # req[p])
            => \E item \in OrderItemCreate :
                 LET failing == {k \in 1..Len(CheckOrder) : Violates(CheckOrder[k], p, item)}
                     first == CHOOSE k \in failing : \A j \in failing : k <= j
                 IN IF failing = {}
                      THEN /\ req'[p].pc = "loop"
                           /\ req'[p].data.items = Append(req[p].data.items, item)
                           /\ resp'[p] = resp[p]
                      ELSE /\ req'[p].pc = "idle"
                           /\ resp'[p].reason = CheckOrder[first]
                           /\ resp'[p].code = IF first = 1 THEN 404 ELSE 400
                           /\ resp'[p].food_id = item.food_id
                           /\ resp'[p].line = req[p].i
                           /\ CheckOrder[first] = "not_enough_quantity"
                                => resp'[p].available =
                                     QueryFood(req[p].session, item.food_id).quantity
  ]_vars

(* One request named food 3 at restaurant 1: the line violated three       *)
(* preconditions and the wrong restaurant was reported; another named      *)
(* food 1, sold out and expired, and the quantity was reported.            *)
C18_Witness ==
  \E p \in Workers, q \in Workers :
    /\ resp[p].reason = "wrong_restaurant" /\ resp[p].food_id = 3 /\ resp[p].code = 400
    /\ resp[q].reason = "not_enough_quantity" /\ resp[q].food_id = 1 /\ resp[q].available = 0

----------------------------------------------------------------------------
(* C19 as stated: no food quantity is decremented until all lines of the   *)
(* request have passed validation, that is, while lines remain to be       *)
(* checked the request holds every food at the quantity it read.           *)
C19_NoDecrementBeforeAllChecked ==
  \A p \in Workers :
    (req[p].pc = "loop" /\ req[p].i <= req[p].n)
      => \A f \in DOMAIN req[p].session :
           req[p].session[f].quantity = req[p].loaded[f].quantity

(* C19, amended: a line that passes is deducted at once from the food as   *)
(* the request holds it, before the next line is checked, so that the      *)
(* request always holds each food at the quantity it read minus all it has *)
(* taken so far; the stored foods do not change until the commit that      *)
(* follows the last line, and a line that fails drops what the request     *)
(* held.                                                                   *)
C19_DecrementHeldUntilCommit ==
  [][\A p \in Workers :
       /\ LinePassed(p) =>
            /\ foods' = foods
            /\ \A f \in DOMAIN req'[p].session :
                 req'[p].session[f].quantity =
                   req'[p].loaded[f].quantity - QuantityOf(req'[p].data.items, f)
       /\ (Moved(p) /\ req[p].pc = "loop" /\ ~LinePassed(p) /\ ~Committed(p)) =>
            /\ foods' = foods
            /\ req'[p].session = EmptySession
       /\ foods' # foods => \E q \in Workers : Committed(q) /\ req[q].i > req[q].n
  ]_vars

(* The second line of a request was refused for lack of quantity and told  *)
(* a quantity below the stored one: it was checked against what the first  *)
(* line had left, and the table still has the full quantity.               *)
C19_Witness ==
  \E p \in Workers :
    /\ resp[p].reason = "not_enough_quantity" /\ resp[p].line = 2
    /\ resp[p].food_id \in DOMAIN foods
    /\ resp[p].available < foods[resp[p].food_id].quantity

----------------------------------------------------------------------------
(* C24: an order carries a completion time if and only if its status is    *)
(* COMPLETED.                                                              *)
C24_CompletedAtIffCompleted ==
  \A o \in 1..Len(orders) :
    orders[o].completed_at # None <=> orders[o].status = "completed"

----------------------------------------------------------------------------
----------------------------------------------------------------------------
(* C22: no stored line item has a quantity of zero or less, and no food's  *)
(* stored quantity is above the one it started with (only create_order     *)
(* runs, so a quantity that never grows stays at or below its start).      *)
C22_NoLineBelowOne ==
  /\ \A o \in 1..Len(orders) : \A k \in 1..Len(orders[o].items) :
       orders[o].items[k].quantity > 0
  /\ \A f \in DOMAIN foods : foods[f].quantity <= InitFoods[f].quantity

----------------------------------------------------------------------------
(* C23: every stored order has at least one line item *)
C23_OrdersHaveLines ==
  \A o \in 1..Len(orders) : Len(orders[o].items) >= 1

----------------------------------------------------------------------------
(* C25: every stored food belongs to a stored restaurant whose status is   *)
(* APPROVED, and so does every stored order that has line items.           *)
C25_FoodsOfApprovedRestaurants ==
  /\ \A f \in DOMAIN foods :
       /\ foods[f].restaurant_id \in DOMAIN restaurants
       /\ restaurants[foods[f].restaurant_id].status = "approved"
  /\ \A o \in 1..Len(orders) :
       orders[o].items # << >> =>
         /\ orders[o].restaurant_id \in DOMAIN restaurants
         /\ restaurants[orders[o].restaurant_id].status = "approved"

----------------------------------------------------------------------------
(* C29: every stored order names a stored restaurant and every one of its  *)
(* line items a stored food, whatever has been deleted.                    *)
C29_NoDanglingOrder ==
  \A o \in 1..Len(orders) :
    /\ orders[o].restaurant_id \in DOMAIN restaurants
    /\ \A k \in 1..Len(orders[o].items) : orders[o].items[k].food_id \in DOMAIN foods

(* The owner asked to delete a food that a stored order holds and was      *)
(* refused, after another food had been deleted.                           *)
C29_Witness ==
  /\ resp[2].reason = "food_is_ordered"
  /\ \E o \in 1..Len(orders) : orders[o].items # << >>
  /\ DOMAIN foods # DOMAIN InitFoods

----------------------------------------------------------------------------
(* C27: for every post that get_all_posts lists, the likes_count and the   *)
(* comments_count it reports are the numbers of like records and of        *)
(* comment records of the post, the counts get_post reports.               *)
C27_ListCountsAreRecordCounts ==
  [][\A p \in Workers :
       (resp'[p] # resp[p] /\ resp'[p].reason = "posts") =>
         \A k \in 1..Len(resp'[p].body) :
           LET post == resp'[p].body[k] IN
           /\ post.likes_count = Cardinality(LikesOf(post.id))
           /\ post.comments_count = Cardinality(CommentsOf(post.id))]_vars

----------------------------------------------------------------------------
(* Who likes what, whatever the ids of the like records *)
LikedPairs(likes) == {<<l.post_id, l.user_id>> : l \in likes}

----------------------------------------------------------------------------
(* C28: with the toggles of likes served one after another, every          *)
(* toggle_like flips whether the user likes the post and touches no other  *)
(* (post, user) pair, so two in a row leave the liked pairs as they were;   *)
(* the is_liked and the likes_count it returns are the user's like and the *)
(* number of likes of the post after the call.                             *)
C28_ToggleFlips ==
  [][\A p \in Workers :
       (req[p].pc \in {"like", "unlike"} /\ req'[p].pc = "idle") =>
         LET pair == <<req[p].data.post_id, req[p].user>>
             before == LikedPairs(post_likes)
             after == LikedPairs(post_likes')
         IN /\ after = (before \ {pair}) \cup ({pair} \ before)
            /\ resp'[p].reason = "like"
            /\ resp'[p].body.is_liked = (pair \in after)
            /\ resp'[p].body.likes_count =
                 Cardinality({l \in post_likes' : l.post_id = pair[1]})]_vars

(* The one like ever stored is gone again and the last toggle answered     *)
(* is_liked false with a count of zero: a like and an unlike in a row have *)
(* left no like, as before the first.                                      *)
C28_Witness ==
  /\ seq.likes = 2
  /\ post_likes = {}
  /\ resp[1].reason = "like"
  /\ resp[1].body.is_liked = FALSE
  /\ resp[1].body.likes_count = 0

----------------------------------------------------------------------------
(* C21: no two users share an e-mail, and a registration that ends while   *)
(* its e-mail is already stored answers 409 and stores no user.            *)
C21_DuplicateEmailIs409 ==
  [][/\ \A u1 \in DOMAIN users', u2 \in DOMAIN users' :
          users'[u1].email = users'[u2].email => u1 = u2
     /\ \A p \in Workers :
          /\ (req[p].pc = "idle" /\ resp'[p] # resp[p] /\ resp'[p].reason = "user_exists")
               => (resp'[p].code = 409 /\ users' = users)
          /\ (req[p].pc \in {"register", "google_register"} /\ req'[p].pc = "idle"
              /\ UsersWithEmail(req[p].data.email) # {})
               => (resp'[p].code = 409 /\ users' = users)]_vars

----------------------------------------------------------------------------
(* C30: a login or google_login that is refused (401, 404 or 400) issues   *)
(* no token and leaves every user as stored.                               *)
C30_RefusedLoginChangesNothing ==
  [][\A p \in Workers :
       (resp'[p] # resp[p]
        /\ resp'[p].reason \in {"bad_credentials", "inactive_user", "user_not_found",
                                "invalid_google_token"})
         => users' = users]_vars

====
